---- MODULE Spec2Model ----
(***************************************************************************)
(* Model of AHKO12-thermalblock-experiments.py: the settings store, the    *)
(* defaults registry, the two greedy-training procedures, the quality test *)
(* and the final reports of the demo script.                               *)
(***************************************************************************)
EXTENDS Integers, Sequences, FiniteSets, TLC

VARIABLES file, pc, error, failed_at, reads, registry, events,
          training_samples, test_samples, reduction_report,
          err_max, mumax, errs, test_report, log

vars == <<file, pc, error, failed_at, reads, registry, events,
          training_samples, test_samples, reduction_report,
          err_max, mumax, errs, test_report, log>>

\* ---------------------------------------------------------------- bounds
\* Most option lines a settings file sets besides num_training_samples.
MaxEntries == 2
\* Largest sample count whose quality-test loop is explored.
MaxSamples == 2
\* Largest per-point error (in abstract units) the error norm returns.
MaxErr == 1

\* ------------------------------------------------------- settings store
config_defaults ==
    "framework" :> "rb" @@
    "num_training_samples" :> "100" @@
    "training_set" :> "random" @@
    "reductor" :> "generic" @@
    "extension_algorithm" :> "gram_schmidt" @@
    "extension_algorithm_product" :> "h1" @@
    "greedy_error_norm" :> "h1" @@
    "use_estimator" :> "False" @@
    "max_rb_size" :> "100" @@
    "target_error" :> "0.01" @@
    "num_test_samples" :> "100" @@
    "test_set" :> "training" @@
    "test_error_norm" :> "h1"

\* The order in which items() lists the default keys.
DefaultKeyOrder ==
    <<"framework", "num_training_samples", "training_set", "reductor",
      "extension_algorithm", "extension_algorithm_product",
      "greedy_error_norm", "use_estimator", "max_rb_size", "target_error",
      "num_test_samples", "test_set", "test_error_norm">>

\* Marker for a lookup that raises NoOptionError.
NoOption == "<NoOptionError>"

\* The characters of every option name and suffix the model uses.
Chars ==
    "framework" :> <<"f","r","a","m","e","w","o","r","k">> @@
    "num_training_samples" :> <<"n","u","m","_","t","r","a","i","n","i","n","g","_","s","a","m","p","l","e","s">> @@
    "training_set" :> <<"t","r","a","i","n","i","n","g","_","s","e","t">> @@
    "reductor" :> <<"r","e","d","u","c","t","o","r">> @@
    "extension_algorithm" :> <<"e","x","t","e","n","s","i","o","n","_","a","l","g","o","r","i","t","h","m">> @@
    "extension_algorithm_product" :> <<"e","x","t","e","n","s","i","o","n","_","a","l","g","o","r","i","t","h","m","_","p","r","o","d","u","c","t">> @@
    "greedy_error_norm" :> <<"g","r","e","e","d","y","_","e","r","r","o","r","_","n","o","r","m">> @@
    "use_estimator" :> <<"u","s","e","_","e","s","t","i","m","a","t","o","r">> @@
    "max_rb_size" :> <<"m","a","x","_","r","b","_","s","i","z","e">> @@
    "target_error" :> <<"t","a","r","g","e","t","_","e","r","r","o","r">> @@
    "num_test_samples" :> <<"n","u","m","_","t","e","s","t","_","s","a","m","p","l","e","s">> @@
    "test_set" :> <<"t","e","s","t","_","s","e","t">> @@
    "test_error_norm" :> <<"t","e","s","t","_","e","r","r","o","r","_","n","o","r","m">> @@
    "_tol" :> <<"_","t","o","l">> @@
    "_threshold" :> <<"_","t","h","r","e","s","h","o","l","d">> @@
    "_find_duplicates" :> <<"_","f","i","n","d","_","d","u","p","l","i","c","a","t","e","s">> @@
    "_check" :> <<"_","c","h","e","c","k">> @@
    "_symmetrize" :> <<"_","s","y","m","m","e","t","r","i","z","e">> @@
    "_orthonormalize" :> <<"_","o","r","t","h","o","n","o","r","m","a","l","i","z","e">> @@
    "_raise_negative" :> <<"_","r","a","i","s","e","_","n","e","g","a","t","i","v","e">> @@
    "compact_print" :> <<"c","o","m","p","a","c","t","_","p","r","i","n","t">> @@
    "_maxiter" :> <<"_","m","a","x","i","t","e","r">> @@
    "a_tol" :> <<"a","_","t","o","l">> @@
    "n_maxiter" :> <<"n","_","m","a","x","i","t","e","r">> @@
    "tol" :> <<"t","o","l">> @@
    "_tolx" :> <<"_","t","o","l","x">>

\* ------------------------------------------------ ConfigParser conversions
\* int(): the decimal numerals the model uses; any other string raises.
IntTable ==
    "0" :> 0 @@ "1" :> 1 @@ "2" :> 2 @@ "3" :> 3 @@ "4" :> 4 @@
    "5" :> 5 @@ "7" :> 7 @@ "100" :> 100

\* float(): value in thousandths; every numeral of IntTable parses too.
FloatTable ==
    "0.01" :> 10 @@ "0.5" :> 500

\* str.lower() on the value strings the model uses.
Lower(s) ==
    IF s = "False" THEN "false" ELSE IF s = "True" THEN "true" ELSE s

\* ConfigParser._boolean_states
BooleanStates ==
    "1" :> TRUE @@ "yes" :> TRUE @@ "true" :> TRUE @@ "on" :> TRUE @@
    "0" :> FALSE @@ "no" :> FALSE @@ "false" :> FALSE @@ "off" :> FALSE

\* Marker for a conversion that raises ValueError.
BadValue == [t |-> "ValueError"]

ParseInt(s) ==
    IF s \in DOMAIN IntTable THEN [t |-> "int", v |-> IntTable[s]]
    ELSE BadValue

ParseFloat(s) ==
    IF s \in DOMAIN FloatTable THEN [t |-> "float", v |-> FloatTable[s]]
    ELSE IF s \in DOMAIN IntTable THEN [t |-> "float", v |-> 1000 * IntTable[s]]
    ELSE BadValue

ParseBoolean(s) ==
    IF Lower(s) \in DOMAIN BooleanStates
    THEN [t |-> "bool", v |-> BooleanStates[Lower(s)]]
    ELSE BadValue

\* ------------------------------------------------------ settings files
EmptySection == [o \in {} |-> ""]

\* Values a settings file may give to a [pymor] option.
PymorChoices ==
    "framework" :> {"lrbms", "bogus"} @@
    "training_set" :> {"bogus"} @@
    "reductor" :> {"stationary_affine_linear", "bogus"} @@
    "reductor_error_product" :> {"None", "h1"} @@
    "extension_algorithm" :> {"pod", "bogus"} @@
    "extension_algorithm_product" :> {"l2"} @@
    "greedy_error_norm" :> {"l2"} @@
    "use_estimator" :> {"True", "maybe"} @@
    "max_rb_size" :> {"5"} @@
    "target_error" :> {"0.5"} @@
    "num_test_samples" :> {"7", "0.5"} @@
    "test_set" :> {"bogus"} @@
    "test_error_norm" :> {"l2"}

PymorEntries ==
    UNION {{<<o, v>> : v \in PymorChoices[o]} : o \in DOMAIN PymorChoices}

\* Keys and values a settings file may list under [pymor.defaults].
DefaultsKeys ==
    {"a_tol", "_check", "compact_print", "n_maxiter", "tol", "_tolx"}

DefaultsValues == {"0.5", "1"}

RECURSIVE PymorExactly(_)
\* [pymor] sections that set exactly k of the options of PymorChoices.
PymorExactly(k) ==
    IF k = 0 THEN {EmptySection}
    ELSE UNION {{(e[1] :> e[2]) @@ f :
                    e \in {x \in PymorEntries : x[1] \notin DOMAIN f}} :
                f \in PymorExactly(k - 1)}

RECURSIVE DefaultsExactly(_)
\* [pymor.defaults] sections with exactly k lines, keys distinct.
DefaultsExactly(k) ==
    IF k = 0 THEN {<<>>}
    ELSE UNION {{Append(d, <<key, v>>) :
                    key \in {x \in DefaultsKeys :
                                \A i \in 1..Len(d) : d[i][1] # x},
                    v \in DefaultsValues} :
                d \in DefaultsExactly(k - 1)}

\* num_training_samples is unset or one of the counts the loop explores.
SampleCountChoices ==
    {EmptySection} \cup
    {("num_training_samples" :> s) :
        s \in {x \in DOMAIN IntTable : IntTable[x] <= MaxSamples}}

UnreadableFile ==
    [readable |-> FALSE, has_pymor |-> FALSE, pymor |-> EmptySection,
     has_defaults |-> FALSE, defaults |-> <<>>]

\* Files with a [pymor] section of j options and k [pymor.defaults] lines.
FilesWithPymor(j, k) ==
    {[readable |-> TRUE, has_pymor |-> TRUE, pymor |-> n @@ p,
      has_defaults |-> hd, defaults |-> d] :
        p \in PymorExactly(j), n \in SampleCountChoices,
        hd \in IF k = 0 THEN BOOLEAN ELSE {TRUE}, d \in DefaultsExactly(k)}

\* Files without a [pymor] section and k [pymor.defaults] lines.
FilesWithoutPymor(k) ==
    {[readable |-> TRUE, has_pymor |-> FALSE, pymor |-> EmptySection,
      has_defaults |-> hd, defaults |-> d] :
        hd \in IF k = 0 THEN BOOLEAN ELSE {TRUE}, d \in DefaultsExactly(k)}

SettingsFiles ==
    {UnreadableFile} \cup
    UNION {FilesWithoutPymor(k) : k \in 0..MaxEntries} \cup
    UNION {UNION {FilesWithPymor(j, k) : k \in 0..(MaxEntries - j)} :
           j \in 0..MaxEntries}

\* config.get('pymor', o): the section's value, else the default, else
\* NoOptionError.
Get(o) ==
    IF o \in DOMAIN file.pymor THEN file.pymor[o]
    ELSE IF o \in DOMAIN config_defaults THEN config_defaults[o]
    ELSE NoOption

\* config.items('pymor.defaults'): the defaults, then the section's lines.
Items ==
    [i \in 1..Len(DefaultKeyOrder) |->
        <<DefaultKeyOrder[i], config_defaults[DefaultKeyOrder[i]]>>]
    \o file.defaults

\* ------------------------------------------------------------- helpers
Range(s) == {s[i] : i \in 1..Len(s)}

\* The lookups made so far, each with the string it resolved to.
RecordReads(rd) ==
    [o \in DOMAIN reads \cup Range(rd) |-> Get(o)]

\* An exception propagates to the top level: the process terminates.
Raise(kind, at) ==
    /\ pc' = "failed"
    /\ error' = kind
    /\ failed_at' = at

Goto(next) ==
    /\ pc' = next
    /\ UNCHANGED <<error, failed_at>>

\* Result of a parsing block: the exception raised, if any, and the
\* options it looked up, in order.
Ok(rd) == [err |-> "none", rd |-> rd]

Err(kind, rd) == [err |-> kind, rd |-> rd]

\* ------------------------------------------------- configuration loading
\* Variant: the assertion on has_section('pymor') is missing.
SettingsLoadable_NoSectionCheck ==
    file.readable

\* The try block: open() and readfp() succeed and the assertion holds.
SettingsLoadable ==
    file.readable /\ file.has_pymor

float_suffixes == <<"_tol", "_threshold">>

boolean_suffixes ==
    <<"_find_duplicates", "_check", "_symmetrize", "_orthonormalize",
      "_raise_negative", "compact_print">>

int_suffixes == <<"_maxiter">>

\* len(key) >= len(suffix) and key[-len(suffix):] == suffix
EndsWith(key, suffix) ==
    LET k == Chars[key]
        s == Chars[suffix]
    IN  /\ Len(k) >= Len(s)
        /\ SubSeq(k, Len(k) - Len(s) + 1, Len(k)) = s

AnySuffix(key, suffixes) ==
    \E i \in 1..Len(suffixes) : EndsWith(key, suffixes[i])

\* Variant: '_maxiter' is listed among the float suffixes.
ClassOf_MaxiterAsFloat(key) ==
    IF AnySuffix(key, float_suffixes \o int_suffixes) THEN "float"
    ELSE IF AnySuffix(key, boolean_suffixes) THEN "bool"
    ELSE "none"

\* The if/elif chain over the three suffix lists.
ClassOf(key) ==
    IF AnySuffix(key, float_suffixes) THEN "float"
    ELSE IF AnySuffix(key, boolean_suffixes) THEN "bool"
    ELSE IF AnySuffix(key, int_suffixes) THEN "int"
    ELSE "none"

\* config.getfloat / getboolean / getint chosen by the key's class.
Convert(class, value) ==
    IF class = "float" THEN ParseFloat(value)
    ELSE IF class = "bool" THEN ParseBoolean(value)
    ELSE ParseInt(value)

RECURSIVE ApplyItems(_, _, _)
\* The for loop over config.items('pymor.defaults'): the registry after
\* the loop, the number of defaults.__setattr__ calls, and the exception
\* that ended the loop early, if any.
ApplyItems(items, reg, n) ==
    IF items = <<>> THEN [reg |-> reg, writes |-> n, err |-> "none"]
    ELSE LET key == Head(items)[1]
             value == Head(items)[2]
             class == ClassOf(key)
         IN  IF class = "none" THEN ApplyItems(Tail(items), reg, n)
             ELSE IF Convert(class, value) = BadValue
                  THEN [reg |-> reg, writes |-> n, err |-> "ValueError"]
             ELSE ApplyItems(Tail(items),
                             (key :> Convert(class, value)) @@ reg, n + 1)

Repeat(e, n) == [i \in 1..n |-> e]

LoadSettings ==
    /\ pc = "load_settings"
    /\ IF SettingsLoadable
       THEN Goto("apply_defaults")
       ELSE Raise("ConfigError", "load_settings")
    /\ UNCHANGED <<file, reads, registry, events, training_samples,
                   test_samples, reduction_report, err_max, mumax, errs,
                   test_report, log>>

ApplyDefaults ==
    /\ pc = "apply_defaults"
    /\ IF file.has_defaults
       THEN LET r == ApplyItems(Items, registry, 0)
            IN  /\ registry' = r.reg
                /\ events' = events \o Repeat("setattr", r.writes)
                /\ IF r.err = "none"
                   THEN Goto("load_dune_module")
                   ELSE Raise(r.err, "apply_defaults")
       ELSE /\ Goto("load_dune_module")
            /\ UNCHANGED <<registry, events>>
    /\ UNCHANGED <<file, reads, training_samples, test_samples,
                   reduction_report, err_max, mumax, errs, test_report,
                   log>>

\* -------------------------------------------------------- discretizations
LoadDuneModule ==
    /\ pc = "load_dune_module"
    /\ events' = Append(events, "load_dune_module")
    /\ \E ok \in BOOLEAN :
          IF ok THEN Goto("create_discretizations")
          ELSE Raise("ExternalError", "load_dune_module")
    /\ UNCHANGED <<file, reads, registry, training_samples, test_samples,
                   reduction_report, err_max, mumax, errs, test_report,
                   log>>

\* Variant: the [pymor.defaults] block runs below the discretizations.
CreateDiscretizations_ThenDefaults ==
    /\ pc = "create_discretizations"
    /\ LET r == IF file.has_defaults THEN ApplyItems(Items, registry, 0)
                ELSE [reg |-> registry, writes |-> 0, err |-> "none"]
       IN  /\ registry' = r.reg
           /\ events' = Append(events, "discretization")
                            \o Repeat("setattr", r.writes)
    /\ Goto("create_training_set")
    /\ UNCHANGED <<file, reads, training_samples, test_samples,
                   reduction_report, err_max, mumax, errs, test_report,
                   log>>

CreateDiscretizations ==
    /\ pc = "create_discretizations"
    /\ events' = Append(events, "discretization")
    /\ Goto("create_training_set")
    /\ UNCHANGED <<file, reads, registry, training_samples, test_samples,
                   reduction_report, err_max, mumax, errs, test_report,
                   log>>

\* ----------------------------------------------------------- training set
\* parameter_space.sample_randomly(n): n points, named by their position.
sample_randomly(n) == [i \in 1..n |-> i]

TrainingSetOutcome ==
    IF ParseInt(Get("num_training_samples")) = BadValue
    THEN Err("ValueError", <<"num_training_samples">>)
    ELSE IF Get("training_set") = "random"
    THEN Ok(<<"num_training_samples", "training_set">>)
    ELSE Err("ConfigError", <<"num_training_samples", "training_set">>)

CreateTrainingSet ==
    /\ pc = "create_training_set"
    /\ LET o == TrainingSetOutcome
       IN  /\ reads' = RecordReads(o.rd)
           /\ IF o.err = "none"
              THEN /\ training_samples' =
                        sample_randomly(ParseInt(Get("num_training_samples")).v)
                   /\ events' = Append(events, "sample")
                   /\ Goto("select_framework")
              ELSE /\ Raise(o.err, "create_training_set")
                   /\ UNCHANGED <<training_samples, events>>
    /\ UNCHANGED <<file, registry, test_samples, reduction_report, err_max,
                   mumax, errs, test_report, log>>

\* ------------------------------------------------------------- framework
SelectFramework ==
    /\ pc = "select_framework"
    /\ reads' = RecordReads(<<"framework">>)
    /\ IF Get("framework") = "rb" THEN Goto("rb_config")
       ELSE IF Get("framework") = "lrbms" THEN Goto("lrbms_config")
       ELSE Raise("ConfigError", "select_framework")
    /\ UNCHANGED <<file, registry, events, training_samples, test_samples,
                   reduction_report, err_max, mumax, errs, test_report,
                   log>>

\* ------------------------------------------------------------ standard rb
RBReductor ==
    IF Get("reductor") = "generic" THEN Ok(<<"reductor">>)
    ELSE IF Get("reductor") = "stationary_affine_linear"
    THEN IF Get("reductor_error_product") = NoOption
         THEN Err("NoOptionError", <<"reductor", "reductor_error_product">>)
         ELSE IF Get("reductor_error_product") # "None"
         THEN Err("AssertionError", <<"reductor", "reductor_error_product">>)
         ELSE Ok(<<"reductor", "reductor_error_product">>)
    ELSE Err("ConfigError", <<"reductor">>)

RBExtensionProduct(rd) ==
    IF Get("extension_algorithm_product") = "h1"
    THEN Ok(Append(rd, "extension_algorithm_product"))
    ELSE Err("AssertionError", Append(rd, "extension_algorithm_product"))

\* Variant: an unrecognized extension algorithm falls through to pod.
RBExtension_Lenient(rd) ==
    Ok(Append(rd, "extension_algorithm"))

RBExtension(rd) ==
    IF Get("extension_algorithm") \in {"gram_schmidt", "pod"}
    THEN Ok(Append(rd, "extension_algorithm"))
    ELSE Err("ConfigError", Append(rd, "extension_algorithm"))

RBGreedyErrorNorm(rd) ==
    IF Get("greedy_error_norm") = "h1"
    THEN Ok(Append(rd, "greedy_error_norm"))
    ELSE Err("AssertionError", Append(rd, "greedy_error_norm"))

RBGreedyOptions(rd) ==
    IF ParseBoolean(Get("use_estimator")) = BadValue
    THEN Err("ValueError", Append(rd, "use_estimator"))
    ELSE IF ParseInt(Get("max_rb_size")) = BadValue
    THEN Err("ValueError", rd \o <<"use_estimator", "max_rb_size">>)
    ELSE IF ParseFloat(Get("target_error")) = BadValue
    THEN Err("ValueError",
             rd \o <<"use_estimator", "max_rb_size", "target_error">>)
    ELSE Ok(rd \o <<"use_estimator", "max_rb_size", "target_error">>)

\* The "parse config" block of perform_standard_rb.
StandardRBConfig ==
    LET a == RBReductor
    IN  IF a.err # "none" THEN a ELSE
    LET b == RBExtensionProduct(a.rd)
    IN  IF b.err # "none" THEN b ELSE
    LET c == RBExtension(b.rd)
    IN  IF c.err # "none" THEN c ELSE
    LET d == RBGreedyErrorNorm(c.rd)
    IN  IF d.err # "none" THEN d ELSE RBGreedyOptions(d.rd)

NoReport == [title |-> "none"]

\* The fields the report string is formatted from (basis size and elapsed
\* time are the greedy algorithm's own results).
GreedyReport ==
    [title |-> "Greedy basis generation",
     greedy_use_estimator |-> ParseBoolean(Get("use_estimator")).v,
     greedy_error_norm_id |-> Get("greedy_error_norm"),
     extension_algorithm_id |-> Get("extension_algorithm"),
     extension_algorithm_product_id |-> Get("extension_algorithm_product"),
     greedy_max_rb_size |-> ParseInt(Get("max_rb_size")).v,
     greedy_target_error |-> ParseFloat(Get("target_error")).v]

PerformStandardRB_Config ==
    /\ pc = "rb_config"
    /\ LET o == StandardRBConfig
       IN  /\ reads' = RecordReads(o.rd)
           /\ IF o.err = "none" THEN Goto("rb_greedy")
              ELSE Raise(o.err, "perform_standard_rb")
    /\ UNCHANGED <<file, registry, events, training_samples, test_samples,
                   reduction_report, err_max, mumax, errs, test_report,
                   log>>

\* Variant: the reduction report is logged as soon as greedy returns.
PerformStandardRB_Greedy_LogsAtOnce ==
    /\ pc = "rb_greedy"
    /\ events' = Append(events, "greedy")
    /\ \E ok \in BOOLEAN :
          IF ok THEN /\ reduction_report' = GreedyReport
                     /\ log' = Append(log, GreedyReport)
                     /\ Goto("select_test_set")
          ELSE /\ Raise("ExternalError", "greedy")
               /\ UNCHANGED <<reduction_report, log>>
    /\ UNCHANGED <<file, reads, registry, training_samples, test_samples,
                   err_max, mumax, errs, test_report>>

\* greedy(...) is invoked; it returns its data or raises.
PerformStandardRB_Greedy ==
    /\ pc = "rb_greedy"
    /\ events' = Append(events, "greedy")
    /\ \E ok \in BOOLEAN :
          IF ok THEN /\ reduction_report' = GreedyReport
                     /\ Goto("select_test_set")
          ELSE /\ Raise("ExternalError", "greedy")
               /\ UNCHANGED reduction_report
    /\ UNCHANGED <<file, reads, registry, training_samples, test_samples,
                   err_max, mumax, errs, test_report, log>>

\* ------------------------------------------------------------------ lrbms
LRBMSExtensionProduct ==
    IF Get("extension_algorithm_product") = "h1"
    THEN Ok(<<"extension_algorithm_product">>)
    ELSE Err("AssertionError", <<"extension_algorithm_product">>)

LRBMSExtension(rd) ==
    IF Get("extension_algorithm") \in {"gram_schmidt", "pod"}
    THEN Ok(Append(rd, "extension_algorithm"))
    ELSE Err("ConfigError", Append(rd, "extension_algorithm"))

LRBMSGreedyErrorNorm(rd) ==
    IF Get("greedy_error_norm") = "h1"
    THEN Ok(Append(rd, "greedy_error_norm"))
    ELSE Err("AssertionError", Append(rd, "greedy_error_norm"))

\* Variant: the assertion on greedy_use_estimator is missing.
LRBMSGreedyOptions_NoAssert(rd) ==
    IF ParseBoolean(Get("use_estimator")) = BadValue
    THEN Err("ValueError", Append(rd, "use_estimator"))
    ELSE IF ParseInt(Get("max_rb_size")) = BadValue
    THEN Err("ValueError", rd \o <<"use_estimator", "max_rb_size">>)
    ELSE IF ParseFloat(Get("target_error")) = BadValue
    THEN Err("ValueError",
             rd \o <<"use_estimator", "max_rb_size", "target_error">>)
    ELSE Ok(rd \o <<"use_estimator", "max_rb_size", "target_error">>)

LRBMSGreedyOptions(rd) ==
    IF ParseBoolean(Get("use_estimator")) = BadValue
    THEN Err("ValueError", Append(rd, "use_estimator"))
    ELSE IF ParseBoolean(Get("use_estimator")).v # FALSE
    THEN Err("AssertionError", Append(rd, "use_estimator"))
    ELSE IF ParseInt(Get("max_rb_size")) = BadValue
    THEN Err("ValueError", rd \o <<"use_estimator", "max_rb_size">>)
    ELSE IF ParseFloat(Get("target_error")) = BadValue
    THEN Err("ValueError",
             rd \o <<"use_estimator", "max_rb_size", "target_error">>)
    ELSE Ok(rd \o <<"use_estimator", "max_rb_size", "target_error">>)

\* The "parse config" block of perform_lrbms.
LRBMSConfig ==
    LET a == LRBMSExtensionProduct
    IN  IF a.err # "none" THEN a ELSE
    LET b == LRBMSExtension(a.rd)
    IN  IF b.err # "none" THEN b ELSE
    LET c == LRBMSGreedyErrorNorm(b.rd)
    IN  IF c.err # "none" THEN c ELSE LRBMSGreedyOptions(c.rd)

PerformLRBMS_Config ==
    /\ pc = "lrbms_config"
    /\ LET o == LRBMSConfig
       IN  /\ reads' = RecordReads(o.rd)
           /\ IF o.err = "none" THEN Goto("lrbms_greedy")
              ELSE Raise(o.err, "perform_lrbms")
    /\ UNCHANGED <<file, registry, events, training_samples, test_samples,
                   reduction_report, err_max, mumax, errs, test_report,
                   log>>

PerformLRBMS_Greedy ==
    /\ pc = "lrbms_greedy"
    /\ events' = Append(events, "greedy")
    /\ \E ok \in BOOLEAN :
          IF ok THEN /\ reduction_report' = GreedyReport
                     /\ Goto("select_test_set")
          ELSE /\ Raise("ExternalError", "greedy")
               /\ UNCHANGED reduction_report
    /\ UNCHANGED <<file, reads, registry, training_samples, test_samples,
                   err_max, mumax, errs, test_report, log>>

\* --------------------------------------------------------------- test set
TestSetOutcome ==
    IF ParseInt(Get("num_test_samples")) = BadValue
    THEN Err("ValueError", <<"num_test_samples">>)
    ELSE IF Get("test_set") = "training"
    THEN Ok(<<"num_test_samples", "test_set">>)
    ELSE Err("ConfigError", <<"num_test_samples", "test_set">>)

\* Variant: the test set is a fresh draw of num_test_samples points.
TestSamples_Fresh ==
    sample_randomly(ParseInt(Get("num_test_samples")).v)

\* test_samples = training_samples
TestSamples == training_samples

SelectTestSet ==
    /\ pc = "select_test_set"
    /\ LET o == TestSetOutcome
       IN  /\ reads' = RecordReads(o.rd)
           /\ IF o.err = "none"
              THEN /\ test_samples' = TestSamples
                   /\ Goto("test_quality")
              ELSE /\ Raise(o.err, "select_test_set")
                   /\ UNCHANGED test_samples
    /\ UNCHANGED <<file, registry, events, training_samples,
                   reduction_report, err_max, mumax, errs, test_report,
                   log>>

\* ----------------------------------------------------------- quality test
\* mumax before its first assignment: the local name is not bound.
Unbound == 0

\* Variant: the comparison is err >= err_max.
TrackMax_NonStrict(em, mm, err, mu) ==
    IF err >= em THEN [err_max |-> err, mumax |-> mu]
    ELSE [err_max |-> em, mumax |-> mm]

\* if err > err_max: err_max = err; mumax = mu
TrackMax(em, mm, err, mu) ==
    IF err > em THEN [err_max |-> err, mumax |-> mu]
    ELSE [err_max |-> em, mumax |-> mm]

\* Entry of test_quality up to the loop.  Sample counts above MaxSamples
\* are not explored.
TestQuality_Begin ==
    /\ pc = "test_quality"
    /\ Len(test_samples) <= MaxSamples
    /\ reads' = RecordReads(<<"test_error_norm">>)
    /\ events' = Append(events, "test_quality")
    /\ IF Get("test_error_norm") = "h1"
       THEN /\ err_max' = -1
            /\ mumax' = Unbound
            /\ errs' = <<>>
            /\ Goto("test_loop")
       ELSE /\ Raise("AssertionError", "test_quality")
            /\ UNCHANGED <<err_max, mumax, errs>>
    /\ UNCHANGED <<file, registry, training_samples, test_samples,
                   reduction_report, test_report, log>>

\* One iteration: both solves, the reconstruction and the error norm,
\* which yields some non-negative error or raises in the libraries.
TestQuality_Step ==
    /\ pc = "test_loop"
    /\ Len(errs) < Len(test_samples)
    /\ \/ \E err \in 0..MaxErr :
            LET mu == test_samples[Len(errs) + 1]
                t == TrackMax(err_max, mumax, err, mu)
            IN  /\ errs' = Append(errs, err)
                /\ err_max' = t.err_max
                /\ mumax' = t.mumax
                /\ Goto("test_loop")
       \/ /\ Raise("ExternalError", "test_quality")
          /\ UNCHANGED <<errs, err_max, mumax>>
    /\ UNCHANGED <<file, reads, registry, events, training_samples,
                   test_samples, reduction_report, test_report, log>>

\* The report string is formatted from locals(); {mumax} needs the name
\* to be bound.
TestQuality_Report ==
    /\ pc = "test_loop"
    /\ Len(errs) = Len(test_samples)
    /\ IF mumax = Unbound
       THEN /\ Raise("KeyError", "test_quality")
            /\ UNCHANGED test_report
       ELSE /\ test_report' =
                  [title |-> "error estimation",
                   strategy |-> Get("test_set"),
                   test_size |-> Len(test_samples),
                   err_max |-> err_max,
                   mumax |-> mumax]
            /\ Goto("emit_reduction_report")
    /\ UNCHANGED <<file, reads, registry, events, training_samples,
                   test_samples, reduction_report, err_max, mumax, errs,
                   log>>

\* ---------------------------------------------------------------- reports
EmitReductionReport ==
    /\ pc = "emit_reduction_report"
    /\ log' = Append(log, reduction_report)
    /\ Goto("emit_test_report")
    /\ UNCHANGED <<file, reads, registry, events, training_samples,
                   test_samples, reduction_report, err_max, mumax, errs,
                   test_report>>

EmitTestReport ==
    /\ pc = "emit_test_report"
    /\ log' = Append(log, test_report)
    /\ Goto("done")
    /\ UNCHANGED <<file, reads, registry, events, training_samples,
                   test_samples, reduction_report, err_max, mumax, errs,
                   test_report>>

\* ---------------------------------------------------------- specification
Init ==
    /\ file \in SettingsFiles
    /\ pc = "load_settings"
    /\ error = "none"
    /\ failed_at = "none"
    /\ reads = EmptySection
    /\ registry = [k \in {} |-> BadValue]
    /\ events = <<>>
    /\ training_samples = <<>>
    /\ test_samples = <<>>
    /\ reduction_report = NoReport
    /\ err_max = 0
    /\ mumax = Unbound
    /\ errs = <<>>
    /\ test_report = NoReport
    /\ log = <<>>

Next ==
    \/ LoadSettings
    \/ ApplyDefaults
    \/ LoadDuneModule
    \/ CreateDiscretizations
    \/ CreateTrainingSet
    \/ SelectFramework
    \/ PerformStandardRB_Config
    \/ PerformStandardRB_Greedy
    \/ PerformLRBMS_Config
    \/ PerformLRBMS_Greedy
    \/ SelectTestSet
    \/ TestQuality_Begin
    \/ TestQuality_Step
    \/ TestQuality_Report
    \/ EmitReductionReport
    \/ EmitTestReport

Spec == Init /\ [][Next]_vars

\* ------------------------------------------------------------ properties
Invoked(call) == call \in Range(events)

\* Stages a run is in once greedy has returned.
AfterGreedy ==
    {"select_test_set", "test_quality", "test_loop",
     "emit_reduction_report", "emit_test_report", "done"}

\* Stages a run is in once test_samples has been selected.
AfterTestSet ==
    {"test_quality", "test_loop", "emit_reduction_report",
     "emit_test_report", "done"}

\* The values each documented [pymor] option supports.
Supported ==
    "framework" :> {"rb", "lrbms"} @@
    "num_training_samples" :> DOMAIN IntTable @@
    "training_set" :> {"random"} @@
    "reductor" :> {"generic", "stationary_affine_linear"} @@
    "extension_algorithm" :> {"gram_schmidt", "pod"} @@
    "extension_algorithm_product" :> {"h1"} @@
    "greedy_error_norm" :> {"h1"} @@
    "use_estimator" :> {"False", "True"} @@
    "max_rb_size" :> DOMAIN IntTable @@
    "target_error" :> DOMAIN FloatTable \cup DOMAIN IntTable @@
    "num_test_samples" :> DOMAIN IntTable @@
    "test_set" :> {"training"} @@
    "test_error_norm" :> {"h1"}

Unrecognized(o) == Get(o) \notin Supported[o]

\* Every option but o has a supported value; reductor_error_product, when
\* the file sets it, is None; lrbms runs without the estimator.
OthersValid(o) ==
    /\ \A p \in DOMAIN Supported \ {o} : Get(p) \in Supported[p]
    /\ "reductor_error_product" \in DOMAIN file.pymor
          => file.pymor["reductor_error_product"] = "None"
    /\ Get("framework") = "lrbms" => Get("use_estimator") = "False"

\* C1 as stated: for each of reductor, extension_algorithm, training_set,
\* framework and test_set, a run whose value for that option is
\* unrecognized (all other options valid) never invokes greedy.
C1_NoGreedyOnUnrecognized ==
    \A o \in {"reductor", "extension_algorithm", "training_set",
             "framework", "test_set"} :
        (Unrecognized(o) /\ OthersValid(o)) => ~Invoked("greedy")

\* The rb path reads reductor_error_product, which has no default.
MissingErrorProduct ==
    /\ Get("reductor") = "stationary_affine_linear"
    /\ "reductor_error_product" \notin DOMAIN file.pymor

\* The place that reads each option and raises on an unrecognized value.
ReadAt ==
    "reductor" :> {"perform_standard_rb"} @@
    "extension_algorithm" :> {"perform_standard_rb", "perform_lrbms"} @@
    "training_set" :> {"create_training_set"} @@
    "framework" :> {"select_framework"} @@
    "test_set" :> {"select_test_set"}

\* C1 amended: an unrecognized extension_algorithm, training_set or
\* framework, or an unrecognized reductor on the rb path, keeps the run
\* from ever invoking greedy, and the place that reads the option fails
\* with a ConfigError (with a NoOptionError when the run asks for
\* stationary_affine_linear without reductor_error_product); an
\* unrecognized test_set raises its ConfigError only after greedy has
\* returned, and keeps the run from the quality test; an unrecognized
\* reductor on the lrbms path raises no ConfigError.
C1_SelectionFailures ==
    /\ \A o \in {"reductor", "extension_algorithm", "training_set",
                "framework"} :
          (/\ Unrecognized(o)
           /\ OthersValid(o)
           /\ o = "reductor" => Get("framework") = "rb")
          => /\ ~Invoked("greedy")
             /\ pc \notin AfterGreedy \cup {"rb_greedy", "lrbms_greedy"}
             /\ failed_at \in ReadAt[o]
                   => \/ error = "ConfigError"
                      \/ error = "NoOptionError" /\ MissingErrorProduct
    /\ (Unrecognized("test_set") /\ OthersValid("test_set"))
          => /\ pc \notin AfterTestSet
             /\ ~Invoked("test_quality")
             /\ failed_at \in ReadAt["test_set"]
                   => error = "ConfigError" /\ Invoked("greedy")
    /\ (/\ Unrecognized("reductor")
        /\ OthersValid("reductor")
        /\ Get("framework") = "lrbms")
          => error # "ConfigError"

C1_Witness ==
    /\ Unrecognized("test_set")
    /\ OthersValid("test_set")
    /\ pc = "failed"
    /\ error = "ConfigError"
    /\ Invoked("greedy")

\* C2 as stated: test_quality over an empty test sequence returns its
\* report normally, with maximal error -1 and sample count 0.
C2_EmptyTestReturnsReport ==
    (/\ Invoked("test_quality")
     /\ test_samples = <<>>
     /\ Get("test_error_norm") = "h1"
     /\ pc # "test_loop")
    => /\ error = "none"
       /\ test_report # NoReport
       /\ test_report.err_max = -1
       /\ test_report.test_size = 0

RECURSIVE MaxOf(_)
MaxOf(s) ==
    IF Len(s) = 1 THEN s[1]
    ELSE IF s[Len(s)] > MaxOf(SubSeq(s, 1, Len(s) - 1)) THEN s[Len(s)]
    ELSE MaxOf(SubSeq(s, 1, Len(s) - 1))

FirstIndexOf(s, x) ==
    CHOOSE i \in 1..Len(s) : s[i] = x /\ \A j \in 1..(i - 1) : s[j] # x

LoopFinished ==
    /\ pc \in {"test_loop", "emit_reduction_report", "emit_test_report",
               "done"}
    /\ Len(errs) = Len(test_samples)

\* C3: after the loop over a non-empty test sequence, err_max is the
\* largest per-point error and mumax is the test point at the first index
\* where that error occurs; the report carries both.
C3_MaxAtFirstOccurrence ==
    (LoopFinished /\ test_samples # <<>>)
    => /\ err_max = MaxOf(errs)
       /\ mumax = test_samples[FirstIndexOf(errs, MaxOf(errs))]
       /\ test_report # NoReport
             => /\ test_report.err_max = MaxOf(errs)
                /\ test_report.mumax =
                      test_samples[FirstIndexOf(errs, MaxOf(errs))]

C3_Witness ==
    /\ pc = "done"
    /\ Len(errs) = 2
    /\ errs[1] = errs[2]
    /\ errs[1] = 1
    /\ test_report.mumax = test_samples[1]

\* C4: an lrbms run whose use_estimator parses to true (all other options
\* valid) fails the assertion in perform_lrbms and never invokes greedy.
C4_LrbmsEstimatorAsserts ==
    (/\ Get("framework") = "lrbms"
     /\ Lower(Get("use_estimator")) \in DOMAIN BooleanStates
     /\ BooleanStates[Lower(Get("use_estimator"))]
     /\ \A p \in DOMAIN Supported : Get(p) \in Supported[p])
    => /\ ~Invoked("greedy")
       /\ pc \notin AfterGreedy \cup {"lrbms_greedy"}
       /\ failed_at = "perform_lrbms" => error = "AssertionError"

C4_Witness ==
    /\ Get("framework") = "lrbms"
    /\ Get("use_estimator") = "True"
    /\ failed_at = "perform_lrbms"
    /\ error = "AssertionError"

\* C5: a settings file that cannot be opened or has no [pymor] section
\* fails with a ConfigError while loading; the registry is never written,
\* the dune module never loaded and no discretization built.
C5_UnloadableSettings ==
    (~file.readable \/ ~file.has_pymor)
    => /\ pc \in {"load_settings", "failed"}
       /\ pc = "failed" => error = "ConfigError" /\ failed_at = "load_settings"
       /\ DOMAIN registry = {}
       /\ events = <<>>

C5_Witness ==
    /\ file.readable
    /\ ~file.has_pymor
    /\ file.defaults # <<>>
    /\ pc = "failed"
    /\ error = "ConfigError"

\* C6: a run that ended with an error has emitted no report; reports are
\* emitted only after greedy and the quality test both completed, the
\* reduction report first and the test report second.
C6_NoPartialReport ==
    /\ error # "none" => log = <<>>
    /\ log # <<>>
          => /\ Invoked("greedy")
             /\ reduction_report # NoReport
             /\ LoopFinished
             /\ test_report # NoReport
             /\ log[1] = reduction_report
             /\ Len(log) <= 2
             /\ Len(log) = 2 => log[2] = test_report
    /\ pc = "done" => Len(log) = 2

C6_Witness ==
    /\ pc = "failed"
    /\ failed_at = "test_quality"
    /\ reduction_report # NoReport
    /\ log = <<>>

\* C7 as stated: every [pymor] option the script looks up while it is
\* unset in the file resolves to its documented default; no lookup fails.
C7_UnsetOptionsHaveDefaults ==
    \A o \in DOMAIN reads :
        o \notin DOMAIN file.pymor
        => /\ reads[o] # NoOption
           /\ o \in DOMAIN config_defaults
           /\ reads[o] = config_defaults[o]

\* The type the suffix table gives a [pymor.defaults] key.
ExpectedType(key) ==
    IF EndsWith(key, "_tol") \/ EndsWith(key, "_threshold") THEN "float"
    ELSE IF \E s \in {"_find_duplicates", "_check", "_symmetrize",
                     "_orthonormalize", "_raise_negative",
                     "compact_print"} : EndsWith(key, s) THEN "bool"
    ELSE IF EndsWith(key, "_maxiter") THEN "int"
    ELSE "none"

DefaultsApplied ==
    /\ pc \notin {"load_settings", "apply_defaults"}
    /\ failed_at \notin {"load_settings", "apply_defaults"}

\* C8: the registry holds a key only with the type of its suffix (float,
\* else boolean, else integer) and the converted value of its line; once
\* the [pymor.defaults] block has run, every listed key with a suffix is
\* in the registry and no key without one is, the default keys included.
C8_RegistryTypedBySuffix ==
    /\ \A k \in DOMAIN registry :
          /\ ExpectedType(k) # "none"
          /\ registry[k].t = ExpectedType(k)
          /\ \E i \in 1..Len(Items) :
                /\ Items[i][1] = k
                /\ registry[k] = Convert(ExpectedType(k), Items[i][2])
    /\ DOMAIN registry \cap DOMAIN config_defaults = {}
    /\ (DefaultsApplied /\ file.has_defaults)
          => \A i \in 1..Len(Items) :
                ExpectedType(Items[i][1]) # "none"
                   <=> Items[i][1] \in DOMAIN registry
    /\ ~file.has_defaults => DOMAIN registry = {}

C8_Witness ==
    /\ pc = "load_dune_module"
    /\ "n_maxiter" \in DOMAIN registry
    /\ registry["n_maxiter"].t = "int"
    /\ \E i \in 1..Len(file.defaults) : file.defaults[i][1] = "_tolx"

StageRank ==
    "setattr" :> 1 @@ "load_dune_module" :> 2 @@ "discretization" :> 3 @@
    "sample" :> 4 @@ "greedy" :> 5 @@ "test_quality" :> 6

\* C9: the calls of a run occur in one order: registry writes, then the
\* dune module, the discretizations, the training samples, greedy and the
\* quality test, each of the latter at most once; the quality test starts
\* only after greedy returned, and a report is emitted only after the
\* quality test returned.
C9_StageOrder ==
    /\ \A i, j \in 1..Len(events) :
          i < j => \/ StageRank[events[i]] < StageRank[events[j]]
                   \/ events[i] = "setattr" /\ events[j] = "setattr"
    /\ Invoked("test_quality") => reduction_report # NoReport
    /\ log # <<>> => test_report # NoReport /\ Invoked("test_quality")
    /\ Len(log) <= 2

C9_Witness ==
    /\ pc = "done"
    /\ Invoked("setattr")
    /\ Len(events) >= 6

\* C10: in the quality test the test samples are the training samples, in
\* the same order, and the number of samples tested and reported is
\* num_training_samples whatever integer num_test_samples is.
C10_TestSetIsTrainingSet ==
    /\ pc \in AfterTestSet
          => /\ test_samples = training_samples
             /\ Len(test_samples) = IntTable[Get("num_training_samples")]
    /\ test_report # NoReport
          => test_report.test_size = IntTable[Get("num_training_samples")]

C10_Witness ==
    /\ pc = "done"
    /\ Get("num_test_samples") = "7"
    /\ test_report.test_size = 2
====
